---- MODULE Spec2Model ----
(***************************************************************************)
(* Model of memory_mcp/server.py: the DatabaseManager store (one SQLite    *)
(* table "memories" behind one lazily reopened connection).                *)
(*                                                                         *)
(* Every action of Spec is one call of a DatabaseManager method; every     *)
(* action of SpecServer is one tool invocation answered by                 *)
(* handle_call_tool; SpecLifespan adds the server's lifespan context and   *)
(* the listing of the tools; in SpecStoreError the db method of an         *)
(* invocation may raise; in SpecInFlight the statements of the handler's   *)
(* coroutines are separate steps of the event loop.                        *)
(* add_memory and update_memory read the wall clock once; the reading is   *)
(* drawn at the call: datetime.now() is naive local time, so a reading can *)
(* be below the one before it (the end of daylight saving time, a clock    *)
(* set back).  SpecSteady is Spec with a clock that does not go backwards; *)
(* SpecConnection is Spec with direct calls of initialize_db.              *)
(* The database file outlives the process: the table of the initial state  *)
(* is one an earlier run has left.                                         *)
(***************************************************************************)
EXTENDS Integers, Sequences, FiniteSets, TLC

(* ------------------------------ bounds --------------------------------- *)
\* largest rowid the model lets the table hand out (so also the largest
\* number of rows in the table)
MaxId == 2
\* last clock tick of the model
MaxTime == 1
\* the tool invocations in flight at once
MaxTasks == 2
\* clock ticks per second of the model clock (datetime has 10^6 of them)
TicksPerSecond == 2
\* the connections the model lets be open at once
MaxConnections == 2

(* ------------------------------ inputs --------------------------------- *)
\* Python's None where a text argument is expected / SQL NULL
None == "None"
\* Python's None where a row dict is expected (Optional[Dict])
NoMemory == [none |-> TRUE]
Titles == {"a", "b"}
Contents == {"x", "y"}
\* memory_id arguments: MaxId + 1 never names a row
MemoryIds == 1..(MaxId + 1)

VARIABLES
    memories,   \* the table: the set of its rows
    conn,       \* self.conn: TRUE = an open connection, FALSE = None
    now,        \* the latest reading of datetime.now()
    op,         \* the latest call: the method called ...
    args,       \* ... its arguments ...
    ret,        \* ... and the value it returned
    returned,   \* the ids add_memory has returned so far
    calls,      \* the db methods the latest tool invocation called
    lifespan,   \* the server's lifespan context: "none" before it is
                \* entered, "active" at its yield, "exited" after a normal
                \* exit, "failed" after an exit with an error
    closes,     \* the db.close() calls the lifespan context has made
    connections, \* the connections sqlite3.connect() has opened that are
                \* not closed
    tasks,      \* the handle_call_tool coroutines of the event loop: for
                \* each slot its request and the statement it is at
    current     \* the slot of the coroutine that has the event loop, 0
                \* when none has

\* the state only the server touches
srv == <<calls, lifespan, closes, tasks, current>>

vars == <<op, args, ret, memories, conn, now, returned, calls, lifespan,
          closes, connections, tasks, current>>

\* the event loop's coroutines
loop == <<tasks, current>>

\* a slot of the event loop with no coroutine
IdleTask ==
    [pc |-> "idle", name |-> "", id |-> 0, start |-> {}, found |-> FALSE]

(* ----------------------------- helpers --------------------------------- *)
SetMin(S) == CHOOSE x \in S : \A y \in S : x <= y
SetMax(S) == CHOOSE x \in S : \A y \in S : x >= y

\* datetime.isoformat(): seconds, and the microsecond part only when it is
\* not zero.  A timestamp is the sequence of its numeric fields.
isoformat(t) ==
    IF t % TicksPerSecond = 0
    THEN <<t \div TicksPerSecond>>
    ELSE <<t \div TicksPerSecond, t % TicksPerSecond>>

\* the clock readings a call can get after a call that read `t`: the wall
\* clock has advanced by at most one tick of the model, stands still, or was
\* set back to any earlier reading
ClockReadings(t) == {u \in 0..MaxTime : u <= t + 1}

(* --------------------------- the SQLite table -------------------------- *)
\* The table is the set of its rows,
\*   [id, title, content, created_at, updated_at].

\* the ids of the rows of table m
Ids(m) == {r.id : r \in m}

\* variant: the next id is the number of rows plus one
NextRowid_count(m) == Cardinality(m) + 1

\* rowid SQLite gives to an INSERT without an id, for a table declared
\* "id INTEGER PRIMARY KEY" (no AUTOINCREMENT): one more than the largest
\* rowid now in the table, 1 for an empty table.
NextRowid(m) == IF m = {} THEN 1 ELSE SetMax(Ids(m)) + 1

\* the rows of a SELECT in the order the table scan yields them (by rowid)
RECURSIVE fetchall(_)
fetchall(rows) ==
    IF rows = {} THEN <<>>
    ELSE LET first == CHOOSE r \in rows : \A q \in rows : r.id <= q.id
         IN <<first>> \o fetchall(rows \ {first})

\* cursor.fetchone(): the first row of the SELECT, None when there is none
fetchone(rows) == IF rows = {} THEN NoMemory ELSE Head(fetchall(rows))

\* the tables the database file can hold when the process starts: none
\* yet, or the record an earlier run stored at an earlier clock reading
EarlierRuns ==
    {{},
     {[id |-> 1, title |-> "a", content |-> "x",
       created_at |-> isoformat(0), updated_at |-> isoformat(0)]}}

(* ------------------- DatabaseManager methods (pure part) --------------- *)
\* variant: the connection is made to a fresh database
initialize_db_fresh(m) == {}

\* initialize_db: connect to the database file and CREATE TABLE IF NOT
\* EXISTS; the rows already in the file's table stay.
initialize_db(m) == m

\* "if not self.conn: self.initialize_db()", the first lines of every method
\* but close: the table the method works on
Opened(c, m) == IF ~c THEN initialize_db(m) ELSE m

\* the open connections after "if not self.conn: self.initialize_db()":
\* sqlite3.connect() is called when self.conn is None
Connected(c, n) == IF ~c THEN n + 1 ELSE n

\* close(): "if self.conn: self.conn.close(); self.conn = None"
db_close(c, n) ==
    [conn |-> FALSE, connections |-> IF c THEN n - 1 ELSE n]

\* Each gives [memories |-> table after the call, ret |-> returned value].

\* "title TEXT NOT NULL, content TEXT NOT NULL": the message of the
\* IntegrityError an INSERT of these values raises, None when it raises none
\* a table without its NOT NULL constraints
NotNullFailure_unconstrained(title, content) == None

NotNullFailure(title, content) ==
    IF title = None THEN "NOT NULL constraint failed: memories.title"
    ELSE IF content = None
    THEN "NOT NULL constraint failed: memories.content"
    ELSE None

\* variant: the clock is read once per timestamp column
db_add_memory_two_clock_reads(m, title, content, t) ==
    LET lastrowid == NextRowid(m)
    IN IF NotNullFailure(title, content) # None
       THEN [memories |-> m, ret |-> 0,
             exc |-> NotNullFailure(title, content)]
       ELSE [memories |-> m \cup {[id |-> lastrowid,
                                   title |-> title, content |-> content,
                                   created_at |-> isoformat(t),
                                   updated_at |-> isoformat(t + 1)]},
             ret |-> IF lastrowid # 0 THEN lastrowid ELSE 0,
             exc |-> None]

\* exc is the message of the exception the method raises, None when it
\* returns
db_add_memory(m, title, content, t) ==
    LET current_time == isoformat(t)
        lastrowid == NextRowid(m)
    IN IF NotNullFailure(title, content) # None
       THEN [memories |-> m, ret |-> 0,
             exc |-> NotNullFailure(title, content)]
       ELSE [memories |-> m \cup {[id |-> lastrowid,
                                   title |-> title, content |-> content,
                                   created_at |-> current_time,
                                   updated_at |-> current_time]},
             ret |-> IF lastrowid # 0 THEN lastrowid ELSE 0,
             exc |-> None]

db_get_memory_by_id(m, memory_id) ==
    fetchone({r \in m : r.id = memory_id})

\* variant: the SELECT has no WHERE clause
db_get_memory_by_title_no_where(m, title) ==
    fetchone(m)

\* variant: the matching row added last
db_get_memory_by_title_last_match(m, title) ==
    LET rows == fetchall({r \in m : r.title = title})
    IN IF rows = <<>> THEN NoMemory ELSE rows[Len(rows)]

db_get_memory_by_title(m, title) ==
    fetchone({r \in m : r.title = title})

\* variant: the list stops after the first row
db_list_memories_first_row(m) ==
    LET rows == fetchall(m)
    IN [i \in 1..(IF rows = <<>> THEN 0 ELSE 1) |->
            [id |-> rows[i].id, title |-> rows[i].title]]

db_list_memories(m) ==
    LET rows == fetchall(m)
    IN [i \in 1..Len(rows) |-> [id |-> rows[i].id, title |-> rows[i].title]]

\* variant: both columns are written whether supplied or not
db_update_memory_all_columns(m, memory_id, title, content, t) ==
    LET updated(r) ==
            [id |-> r.id, title |-> title, content |-> content,
             created_at |-> r.created_at, updated_at |-> isoformat(t)]
    IN IF db_get_memory_by_id(m, memory_id) = NoMemory
       THEN [memories |-> m, ret |-> FALSE]
       ELSE IF title = None /\ content = None
       THEN [memories |-> m, ret |-> TRUE]
       ELSE [memories |->
                {IF r.id = memory_id THEN updated(r) ELSE r : r \in m},
             ret |-> TRUE]

\* variant: updated_at is bumped only when a supplied value differs
db_update_memory_bump_on_change(m, memory_id, title, content, t) ==
    LET changes(r) == \/ title # None /\ title # r.title
                      \/ content # None /\ content # r.content
        updated(r) ==
            [id |-> r.id,
             title |-> IF title # None THEN title ELSE r.title,
             content |-> IF content # None THEN content ELSE r.content,
             created_at |-> r.created_at,
             updated_at |-> IF changes(r) THEN isoformat(t)
                            ELSE r.updated_at]
    IN IF db_get_memory_by_id(m, memory_id) = NoMemory
       THEN [memories |-> m, ret |-> FALSE]
       ELSE IF title = None /\ content = None
       THEN [memories |-> m, ret |-> TRUE]
       ELSE [memories |->
                {IF r.id = memory_id THEN updated(r) ELSE r : r \in m},
             ret |-> TRUE]

\* variant: no early return when no field is supplied
db_update_memory_no_early_return(m, memory_id, title, content, t) ==
    LET updated(r) ==
            [id |-> r.id,
             title |-> IF title # None THEN title ELSE r.title,
             content |-> IF content # None THEN content ELSE r.content,
             created_at |-> r.created_at,
             updated_at |-> isoformat(t)]
    IN IF db_get_memory_by_id(m, memory_id) = NoMemory
       THEN [memories |-> m, ret |-> FALSE]
       ELSE [memories |->
                {IF r.id = memory_id THEN updated(r) ELSE r : r \in m},
             ret |-> TRUE]

\* variant: no existence check before the UPDATE
db_update_memory_no_existence_check(m, memory_id, title, content, t) ==
    LET updated(r) ==
            [id |-> r.id,
             title |-> IF title # None THEN title ELSE r.title,
             content |-> IF content # None THEN content ELSE r.content,
             created_at |-> r.created_at,
             updated_at |-> isoformat(t)]
    IN IF title = None /\ content = None
       THEN [memories |-> m, ret |-> TRUE]
       ELSE [memories |->
                {IF r.id = memory_id THEN updated(r) ELSE r : r \in m},
             ret |-> TRUE]

\* variant: updated_at is set to the whole second of the clock reading
db_update_memory_whole_seconds(m, memory_id, title, content, t) ==
    LET existing_memory == db_get_memory_by_id(m, memory_id)
        updated(r) ==
            [id |-> r.id,
             title |-> IF title # None THEN title ELSE r.title,
             content |-> IF content # None THEN content ELSE r.content,
             created_at |-> r.created_at,
             updated_at |-> <<t \div TicksPerSecond>>]
    IN IF existing_memory = NoMemory
       THEN [memories |-> m, ret |-> FALSE]
       ELSE IF title = None /\ content = None
       THEN [memories |-> m, ret |-> TRUE]
       ELSE [memories |->
                {IF r.id = memory_id THEN updated(r) ELSE r : r \in m},
             ret |-> TRUE]

\* variant: the UPDATE also sets created_at
db_update_memory_sets_created_at(m, memory_id, title, content, t) ==
    LET existing_memory == db_get_memory_by_id(m, memory_id)
        updated(r) ==
            [id |-> r.id,
             title |-> IF title # None THEN title ELSE r.title,
             content |-> IF content # None THEN content ELSE r.content,
             created_at |-> isoformat(t),
             updated_at |-> isoformat(t)]
    IN IF existing_memory = NoMemory
       THEN [memories |-> m, ret |-> FALSE]
       ELSE IF title = None /\ content = None
       THEN [memories |-> m, ret |-> TRUE]
       ELSE [memories |->
                {IF r.id = memory_id THEN updated(r) ELSE r : r \in m},
             ret |-> TRUE]

db_update_memory(m, memory_id, title, content, t) ==
    LET existing_memory == db_get_memory_by_id(m, memory_id)
        updated(r) ==
            [id |-> r.id,
             title |-> IF title # None THEN title ELSE r.title,
             content |-> IF content # None THEN content ELSE r.content,
             created_at |-> r.created_at,
             updated_at |-> isoformat(t)]
    IN IF existing_memory = NoMemory
       THEN [memories |-> m, ret |-> FALSE]
       ELSE IF title = None /\ content = None
       THEN [memories |-> m, ret |-> TRUE]
       ELSE [memories |->
                {IF r.id = memory_id THEN updated(r) ELSE r : r \in m},
             ret |-> TRUE]

\* variant: no existence check before the DELETE
db_delete_memory_no_existence_check(m, memory_id) ==
    [memories |-> {r \in m : r.id # memory_id}, ret |-> TRUE]

\* variant: the DELETE's WHERE clause also matches later rows
db_delete_memory_wrong_where(m, memory_id) ==
    IF db_get_memory_by_id(m, memory_id) = NoMemory
    THEN [memories |-> m, ret |-> FALSE]
    ELSE [memories |-> {r \in m : r.id < memory_id}, ret |-> TRUE]

db_delete_memory(m, memory_id) ==
    IF db_get_memory_by_id(m, memory_id) = NoMemory
    THEN [memories |-> m, ret |-> FALSE]
    ELSE [memories |-> {r \in m : r.id # memory_id}, ret |-> TRUE]

(* ------------------------- tool invocations ---------------------------- *)
\* JSON values of an argument mapping
JNull == [null |-> TRUE]
JInt(n) == [int |-> n]
JStr(str) == [str |-> str]

\* "arguments: dict | None": the absent mapping; <<>> is the empty one
NoArguments == [absent |-> TRUE]

\* "arguments is None" in place of "not arguments"
Falsy_none_only(arguments) == arguments = NoArguments

\* "not arguments"
Falsy(arguments) == arguments = NoArguments \/ DOMAIN arguments = {}

\* "key in arguments", used after "not arguments or"
HasKey(arguments, key) == ~Falsy(arguments) /\ key \in DOMAIN arguments

\* arguments.get(key)
Get(arguments, key) ==
    IF key \in DOMAIN arguments THEN arguments[key] ELSE JNull

\* the Python text of a JSON string, None of a JSON null
Text(v) == IF v = JNull THEN None ELSE v.str

\* int(v): the integer, or the message of the TypeError for None
py_int(v) ==
    IF v = JNull
    THEN [exc |-> "int() argument must be a string, a bytes-like object "
                  \o "or a real number, not 'NoneType'",
          value |-> 0]
    ELSE [exc |-> None, value |-> v.int]

\* Tool functions.  c and m are db.conn and the table at the call; each
\* gives [memories |-> table after the call, text |-> returned text,
\* calls |-> the db methods called, in order].

\* remember reporting the next id without inserting the row
remember_no_insert(c, m, title, content, t) ==
    [memories |-> Opened(c, m),
     text |-> "Memory stored successfully with ID: "
                  \o ToString(NextRowid(Opened(c, m))) \o ".",
     calls |-> <<"add_memory">>]

remember(c, m, title, content, t) ==
    LET r == db_add_memory(Opened(c, m), title, content, t)
    IN [memories |-> r.memories,
        text |-> IF r.exc # None
                 THEN "Error storing memory: " \o r.exc
                 ELSE "Memory stored successfully with ID: "
                          \o ToString(r.ret) \o ".",
        calls |-> <<"add_memory">>]

\* "Title: ...\n\nContent: ..." of a row dict, "Memory not found." of None
FormatMemory(memory) ==
    IF memory # NoMemory
    THEN "Title: " \o memory.title \o "\n\nContent: " \o memory.content
    ELSE "Memory not found."

\* get_memory without its final else: the lookup by title runs with None
get_memory_no_else(c, m, memory_id, title) ==
    IF memory_id # JNull
    THEN [memories |-> Opened(c, m),
          text |-> FormatMemory(
              db_get_memory_by_id(Opened(c, m), py_int(memory_id).value)),
          calls |-> <<"get_memory_by_id">>]
    ELSE [memories |-> Opened(c, m),
          text |-> FormatMemory(db_get_memory_by_title(Opened(c, m), title)),
          calls |-> <<"get_memory_by_title">>]

\* get_memory taking the record it finds by id out of the table
get_memory_consumes(c, m, memory_id, title) ==
    IF memory_id # JNull
    THEN [memories |->
              {r \in Opened(c, m) : r.id # py_int(memory_id).value},
          text |-> FormatMemory(
              db_get_memory_by_id(Opened(c, m), py_int(memory_id).value)),
          calls |-> <<"get_memory_by_id">>]
    ELSE IF title # None
    THEN [memories |-> Opened(c, m),
          text |-> FormatMemory(db_get_memory_by_title(Opened(c, m), title)),
          calls |-> <<"get_memory_by_title">>]
    ELSE [memories |-> m,
          text |-> "Error: Please provide either a memory_id or title.",
          calls |-> <<>>]

\* get_memory testing its title before its memory_id
get_memory_title_first(c, m, memory_id, title) ==
    IF title # None
    THEN [memories |-> Opened(c, m),
          text |-> FormatMemory(db_get_memory_by_title(Opened(c, m), title)),
          calls |-> <<"get_memory_by_title">>]
    ELSE IF memory_id # JNull
    THEN [memories |-> Opened(c, m),
          text |-> FormatMemory(
              db_get_memory_by_id(Opened(c, m), py_int(memory_id).value)),
          calls |-> <<"get_memory_by_id">>]
    ELSE [memories |-> m,
          text |-> "Error: Please provide either a memory_id or title.",
          calls |-> <<>>]

get_memory(c, m, memory_id, title) ==
    IF memory_id # JNull
    THEN IF py_int(memory_id).exc # None
         THEN [memories |-> m,
               text |-> "Error retrieving memory: " \o py_int(memory_id).exc,
               calls |-> <<>>]
         ELSE [memories |-> Opened(c, m),
               text |-> FormatMemory(
                   db_get_memory_by_id(Opened(c, m),
                                       py_int(memory_id).value)),
               calls |-> <<"get_memory_by_id">>]
    ELSE IF title # None
    THEN [memories |-> Opened(c, m),
          text |-> FormatMemory(db_get_memory_by_title(Opened(c, m), title)),
          calls |-> <<"get_memory_by_title">>]
    ELSE [memories |-> m,
          text |-> "Error: Please provide either a memory_id or title.",
          calls |-> <<>>]

\* the loop of list_memories stopping after its first line
RECURSIVE MemoryLines_first_only(_)
MemoryLines_first_only(ms) ==
    IF ms = <<>> THEN ""
    ELSE "ID: " \o ToString(Head(ms).id) \o " - " \o Head(ms).title \o "\n"

\* the "ID: {id} - {title}\n" lines of a list of projections
RECURSIVE MemoryLines(_)
MemoryLines(ms) ==
    IF ms = <<>> THEN ""
    ELSE "ID: " \o ToString(Head(ms).id) \o " - " \o Head(ms).title \o "\n"
            \o MemoryLines(Tail(ms))

list_memories(c, m) ==
    LET ms == db_list_memories(Opened(c, m))
    IN [memories |-> Opened(c, m),
        text |-> IF ms = <<>> THEN "No memories stored yet."
                 ELSE "Stored Memories:\n\n" \o MemoryLines(ms),
        calls |-> <<"list_memories">>]

\* update_memory without the check of its fields
update_memory_no_field_check(c, m, memory_id, title, content, t) ==
    LET r == db_update_memory(Opened(c, m), memory_id, title, content, t)
    IN [memories |-> r.memories,
        text |-> IF r.ret
                 THEN "Memory " \o ToString(memory_id)
                          \o " updated successfully."
                 ELSE "Memory with ID " \o ToString(memory_id)
                          \o " not found.",
        calls |-> <<"update_memory">>]

\* update_memory checking its fields only after the call of the store
update_memory_late_field_check(c, m, memory_id, title, content, t) ==
    LET r == db_update_memory(Opened(c, m), memory_id, title, content, t)
    IN [memories |-> r.memories,
        text |-> IF title = None /\ content = None
                 THEN "Error: Please provide at least one field to update "
                          \o "(title or content)."
                 ELSE IF r.ret
                 THEN "Memory " \o ToString(memory_id)
                          \o " updated successfully."
                 ELSE "Memory with ID " \o ToString(memory_id)
                          \o " not found.",
        calls |-> <<"update_memory">>]

update_memory(c, m, memory_id, title, content, t) ==
    IF title = None /\ content = None
    THEN [memories |-> m,
          text |-> "Error: Please provide at least one field to update "
                       \o "(title or content).",
          calls |-> <<>>]
    ELSE LET r == db_update_memory(Opened(c, m), memory_id, title, content,
                                   t)
         IN [memories |-> r.memories,
             text |-> IF r.ret
                      THEN "Memory " \o ToString(memory_id)
                               \o " updated successfully."
                      ELSE "Memory with ID " \o ToString(memory_id)
                               \o " not found.",
             calls |-> <<"update_memory">>]

\* delete_memory reporting success whatever db.delete_memory returned
delete_memory_always_success(c, m, memory_id) ==
    LET r == db_delete_memory(Opened(c, m), memory_id)
    IN [memories |-> r.memories,
        text |-> "Memory " \o ToString(memory_id)
                     \o " deleted successfully.",
        calls |-> <<"delete_memory">>]

delete_memory(c, m, memory_id) ==
    LET r == db_delete_memory(Opened(c, m), memory_id)
    IN [memories |-> r.memories,
        text |-> IF r.ret
                 THEN "Memory " \o ToString(memory_id)
                          \o " deleted successfully."
                 ELSE "Memory with ID " \o ToString(memory_id)
                          \o " not found.",
        calls |-> <<"delete_memory">>]

\* an exception answered as an ordinary text, without the error flag
Raise_no_flag(m, message) ==
    [memories |-> m, isError |-> FALSE, text |-> message, calls |-> <<>>]

\* an exception leaving handle_call_tool: the server answers with the error
\* flag set and the exception's message as text; no table change
Raise(m, message) ==
    [memories |-> m, isError |-> TRUE, text |-> message, calls |-> <<>>]

\* a tool function's text, returned as one TextContent without error flag
Content(r) ==
    [memories |-> r.memories, isError |-> FALSE, text |-> r.text,
     calls |-> r.calls]

\* the message without the name of the tool
UnknownTool_no_name(name) == "Unknown tool"

\* f"Unknown tool: {name}"
UnknownTool(name) == "Unknown tool: " \o name

\* handle_call_tool(name, arguments) with db.conn = c, table m and clock
\* reading t: [memories, isError, text, calls]
handle_call_tool(c, m, name, arguments, t) ==
    IF name = "remember"
    THEN IF \/ Falsy(arguments)
            \/ ~HasKey(arguments, "title")
            \/ ~HasKey(arguments, "content")
         THEN Raise(m, "Missing title or content arguments")
         ELSE Content(remember(c, m, Text(arguments["title"]),
                               Text(arguments["content"]), t))
    ELSE IF name = "get_memory"
    THEN IF Falsy(arguments)
         THEN Raise(m, "Missing arguments")
         ELSE Content(get_memory(c, m, Get(arguments, "memory_id"),
                                 Text(Get(arguments, "title"))))
    ELSE IF name = "list_memories"
    THEN Content(list_memories(c, m))
    ELSE IF name = "update_memory"
    THEN IF Falsy(arguments) \/ ~HasKey(arguments, "memory_id")
         THEN Raise(m, "Missing memory_id argument")
         ELSE IF py_int(arguments["memory_id"]).exc # None
         THEN Raise(m, py_int(arguments["memory_id"]).exc)
         ELSE Content(update_memory(c, m,
                                    py_int(arguments["memory_id"]).value,
                                    Text(Get(arguments, "title")),
                                    Text(Get(arguments, "content")), t))
    ELSE IF name = "delete_memory"
    THEN IF Falsy(arguments) \/ ~HasKey(arguments, "memory_id")
         THEN Raise(m, "Missing memory_id argument")
         ELSE IF py_int(arguments["memory_id"]).exc # None
         THEN Raise(m, py_int(arguments["memory_id"]).exc)
         ELSE Content(delete_memory(c, m,
                                    py_int(arguments["memory_id"]).value))
    ELSE Raise(m, UnknownTool(name))

(* ------------------------------ actions -------------------------------- *)
Init ==
    /\ memories \in EarlierRuns
    /\ conn = TRUE
    /\ now = 0
    /\ op = "__init__"
    /\ args = <<>>
    /\ ret = None
    /\ returned = {}
    /\ calls = <<>>
    /\ lifespan = "none"
    /\ closes = 0
    /\ connections = 1
    /\ tasks = [k \in 1..MaxTasks |-> IdleTask]
    /\ current = 0

\* DatabaseManager.initialize_db called on its own: "self.conn =
\* sqlite3.connect(self.db_path)" whatever self.conn is, so a connection
\* that was open stays open, unreferenced
InitializeDb ==
    /\ connections < MaxConnections
    /\ memories' = initialize_db(memories)
    /\ conn' = TRUE
    /\ connections' = connections + 1
    /\ op' = "initialize_db"
    /\ args' = <<>>
    /\ ret' = None
    /\ UNCHANGED <<returned, now, srv>>

\* Python's garbage collector closes the connections self.conn no longer
\* refers to
Collect ==
    /\ connections > (IF conn THEN 1 ELSE 0)
    /\ connections' = (IF conn THEN 1 ELSE 0)
    /\ op' = "gc"
    /\ args' = <<>>
    /\ ret' = None
    /\ UNCHANGED <<memories, conn, returned, now, srv>>

\* DatabaseManager.close
Close ==
    /\ conn' = db_close(conn, connections).conn
    /\ connections' = db_close(conn, connections).connections
    /\ op' = "close"
    /\ args' = <<>>
    /\ ret' = None
    /\ UNCHANGED <<memories, returned, now, srv>>

\* DatabaseManager.add_memory(title, content)
AddMemory(title, content) ==
    /\ NextRowid(Opened(conn, memories)) <= MaxId
    /\ now' \in ClockReadings(now)
    /\ LET r == db_add_memory(Opened(conn, memories), title, content, now')
       IN /\ memories' = r.memories
          /\ op' = "add_memory"
          /\ args' = [title |-> title, content |-> content]
          /\ ret' = r.ret
          /\ returned' = returned \cup {r.ret}
    /\ conn' = TRUE
    /\ connections' = Connected(conn, connections)
    /\ UNCHANGED srv

\* DatabaseManager.get_memory_by_id(memory_id)
GetMemoryById(memory_id) ==
    /\ op' = "get_memory_by_id"
    /\ args' = [memory_id |-> memory_id]
    /\ ret' = db_get_memory_by_id(Opened(conn, memories), memory_id)
    /\ memories' = Opened(conn, memories)
    /\ conn' = TRUE
    /\ connections' = Connected(conn, connections)
    /\ UNCHANGED <<returned, now, srv>>

\* DatabaseManager.get_memory_by_title(title)
GetMemoryByTitle(title) ==
    /\ op' = "get_memory_by_title"
    /\ args' = [title |-> title]
    /\ ret' = db_get_memory_by_title(Opened(conn, memories), title)
    /\ memories' = Opened(conn, memories)
    /\ conn' = TRUE
    /\ connections' = Connected(conn, connections)
    /\ UNCHANGED <<returned, now, srv>>

\* DatabaseManager.list_memories()
ListMemories ==
    /\ op' = "list_memories"
    /\ args' = <<>>
    /\ ret' = db_list_memories(Opened(conn, memories))
    /\ memories' = Opened(conn, memories)
    /\ conn' = TRUE
    /\ connections' = Connected(conn, connections)
    /\ UNCHANGED <<returned, now, srv>>

\* update_memory reads the clock after the existence check and the check
\* for a field, when it is about to write
UpdateReadsClock(m, memory_id, title, content) ==
    /\ memory_id \in Ids(m)
    /\ title # None \/ content # None

\* DatabaseManager.update_memory(memory_id, title, content)
UpdateMemory(memory_id, title, content) ==
    /\ now' \in IF UpdateReadsClock(memories, memory_id, title, content)
                THEN ClockReadings(now) ELSE {now}
    /\ LET r == db_update_memory(Opened(conn, memories), memory_id, title,
                                 content, now')
       IN /\ memories' = r.memories
          /\ op' = "update_memory"
          /\ args' = [memory_id |-> memory_id, title |-> title,
                      content |-> content]
          /\ ret' = r.ret
    /\ conn' = TRUE
    /\ connections' = Connected(conn, connections)
    /\ UNCHANGED <<returned, srv>>

\* DatabaseManager.delete_memory(memory_id)
DeleteMemory(memory_id) ==
    /\ LET r == db_delete_memory(Opened(conn, memories), memory_id)
       IN /\ memories' = r.memories
          /\ op' = "delete_memory"
          /\ args' = [memory_id |-> memory_id]
          /\ ret' = r.ret
    /\ conn' = TRUE
    /\ connections' = Connected(conn, connections)
    /\ UNCHANGED <<returned, now, srv>>

Next ==
    \/ Close
    \/ \E title \in Titles, content \in Contents : AddMemory(title, content)
    \/ \E memory_id \in MemoryIds : GetMemoryById(memory_id)
    \/ \E title \in Titles : GetMemoryByTitle(title)
    \/ ListMemories
    \/ \E memory_id \in MemoryIds, title \in Titles \cup {None},
          content \in Contents \cup {None} :
            UpdateMemory(memory_id, title, content)
    \/ \E memory_id \in MemoryIds : DeleteMemory(memory_id)

Spec == Init /\ [][Next]_vars

\* the calls of the store, direct calls of initialize_db and the runs of
\* the garbage collector among them
NextConnection ==
    \/ InitializeDb
    \/ Collect
    \/ Next

SpecConnection == Init /\ [][NextConnection]_vars

\* the calls of the store with a clock that does not go backwards: no
\* reading of add_memory or update_memory is below the reading before it
NextSteady ==
    \/ Close
    \/ \E title \in Titles, content \in Contents :
            AddMemory(title, content) /\ now' >= now
    \/ \E memory_id \in MemoryIds : GetMemoryById(memory_id)
    \/ \E title \in Titles : GetMemoryByTitle(title)
    \/ ListMemories
    \/ \E memory_id \in MemoryIds, title \in Titles \cup {None},
          content \in Contents \cup {None} :
            UpdateMemory(memory_id, title, content) /\ now' >= now
    \/ \E memory_id \in MemoryIds : DeleteMemory(memory_id)

SpecSteady == Init /\ [][NextSteady]_vars

(* --------------------------- server actions ---------------------------- *)
\* the memory_id values of the invocations
JIds == {JInt(i) : i \in MemoryIds}

\* the argument mappings the model invokes each tool with
NoMapping == {NoArguments, <<>>}

RememberArguments ==
    NoMapping
    \cup {[title |-> JStr("a")], [content |-> JStr("x")],
          [title |-> JNull, content |-> JStr("x")],
          [title |-> JStr("a"), content |-> JNull],
          [title |-> JStr("a"), content |-> JStr("x")],
          [title |-> JStr("b"), content |-> JStr("y")]}

GetMemoryArguments ==
    NoMapping
    \cup {[memory_id |-> i] : i \in JIds}
    \cup {[title |-> JStr(t)] : t \in Titles}
    \cup {[memory_id |-> JInt(MaxId + 1), title |-> JStr("a")],
          [memory_id |-> JInt(1), title |-> JStr("b")],
          [memory_id |-> JNull, title |-> JNull]}

\* update_memory is invoked on the first id and on an id no record has
UpdateIds == {JInt(1), JInt(MaxId + 1)}

UpdateMemoryArguments ==
    NoMapping
    \cup {[title |-> JStr("b")]}
    \cup {[memory_id |-> i] : i \in UpdateIds}
    \cup {[memory_id |-> i, title |-> JStr("b")] : i \in UpdateIds}
    \cup {[memory_id |-> i, content |-> JStr("y")] : i \in UpdateIds}
    \cup {[memory_id |-> JInt(1), title |-> JStr("b"),
           content |-> JStr("y")],
          [memory_id |-> JInt(1), title |-> JNull, content |-> JNull],
          [memory_id |-> JInt(1), title |-> JNull, content |-> JStr("y")]}

DeleteMemoryArguments ==
    NoMapping
    \cup {[title |-> JStr("a")]}
    \cup {[memory_id |-> i] : i \in JIds}

UnknownArguments == NoMapping \cup {[memory_id |-> JInt(1)]}

ToolNames ==
    {"remember", "get_memory", "list_memories", "update_memory",
     "delete_memory"}

Invocations ==
    {[name |-> "remember", arguments |-> a] : a \in RememberArguments}
    \cup {[name |-> "get_memory", arguments |-> a] :
            a \in GetMemoryArguments}
    \cup {[name |-> "list_memories", arguments |-> a] : a \in NoMapping}
    \cup {[name |-> "update_memory", arguments |-> a] :
            a \in UpdateMemoryArguments}
    \cup {[name |-> "delete_memory", arguments |-> a] :
            a \in DeleteMemoryArguments}
    \cup {[name |-> "bogus_tool", arguments |-> a] : a \in UnknownArguments}

\* the invocation gets to a datetime.now(): the one of db.add_memory, or
\* the one of db.update_memory on a record it found
CallReadsClock(m, name, arguments) ==
    \/ /\ name = "remember"
       /\ ~Falsy(arguments)
       /\ HasKey(arguments, "title") /\ HasKey(arguments, "content")
    \/ /\ name = "update_memory"
       /\ ~Falsy(arguments)
       /\ HasKey(arguments, "memory_id")
       /\ py_int(arguments["memory_id"]).exc = None
       /\ UpdateReadsClock(m, py_int(arguments["memory_id"]).value,
                           Text(Get(arguments, "title")),
                           Text(Get(arguments, "content")))

\* one tools/call request answered by handle_call_tool
HandleCallTool(name, arguments) ==
    /\ now' \in IF CallReadsClock(memories, name, arguments)
                THEN ClockReadings(now) ELSE {now}
    /\ \E r \in {handle_call_tool(conn, memories, name, arguments, now')} :
          /\ \A row \in r.memories : row.id <= MaxId
          /\ memories' = r.memories
          /\ op' = "call_tool"
          /\ args' = [name |-> name, arguments |-> arguments]
          /\ ret' = [isError |-> r.isError, text |-> r.text]
          /\ calls' = r.calls
          /\ conn' = (conn \/ r.calls # <<>>)
          /\ connections' = IF r.calls # <<>>
                            THEN Connected(conn, connections)
                            ELSE connections
          /\ returned' = returned \cup (Ids(r.memories) \ Ids(memories))
    /\ UNCHANGED <<lifespan, closes, loop>>

NextServer ==
    \E inv \in Invocations : HandleCallTool(inv.name, inv.arguments)

SpecServer == Init /\ [][NextServer]_vars

(* ---------------------- invocations in flight -------------------------- *)
\* "UPDATE memories SET ..., updated_at = ? WHERE id = ?"
sql_update(m, memory_id, title, content, t) ==
    {IF r.id = memory_id
     THEN [id |-> r.id,
           title |-> IF title # None THEN title ELSE r.title,
           content |-> IF content # None THEN content ELSE r.content,
           created_at |-> r.created_at,
           updated_at |-> isoformat(t)]
     ELSE r : r \in m}

\* "DELETE FROM memories WHERE id = ?"
sql_delete(m, memory_id) == {r \in m : r.id # memory_id}

\* the requests in flight: remember stores ("a", "x"), update_memory sets
\* the title of its record to "b"
TaskRequests ==
    {[name |-> "remember", id |-> 0],
     [name |-> "update_memory", id |-> 1],
     [name |-> "delete_memory", id |-> 1]}

\* variant: the handler gives up the event loop between the statements of
\* the store, as a thread would
handler_awaits_between_statements(pc) == pc \in {"write", "commit"}

\* whether the coroutine of handle_call_tool is at an await when it is at
\* pc: the handler and the db methods it calls have no await, so it keeps
\* the event loop from its first statement to its return
handler_awaits(pc) == FALSE

\* the event loop may run the coroutine of slot k
MayRun(k) ==
    \/ current = 0
    \/ current = k
    \/ current # 0 /\ handler_awaits(tasks[current].pc)

\* the server accepts a request: its coroutine is created, not yet run
Accept(k, req) ==
    /\ tasks[k].pc \in {"idle", "done"}
    /\ tasks' = [tasks EXCEPT ![k] =
                    [pc |-> "accepted", name |-> req.name, id |-> req.id,
                     start |-> {}, found |-> FALSE]]
    /\ UNCHANGED <<op, args, ret, memories, conn, now, returned, calls,
                   lifespan, closes, connections, current>>

\* the arguments of the request of coroutine t
TaskArguments(t) ==
    IF t.name = "remember"
    THEN [title |-> JStr("a"), content |-> JStr("x")]
    ELSE IF t.name = "update_memory"
    THEN [memory_id |-> JInt(t.id), title |-> JStr("b")]
    ELSE [memory_id |-> JInt(t.id)]

\* what the handler of coroutine t returns: the answer of handle_call_tool
\* to its request on the table it started on
TaskReturn(t) ==
    handle_call_tool(TRUE, t.start, t.name, TaskArguments(t), 0)

\* the first statements of the coroutine of slot k: the connection check
\* of the db method and, for update_memory and delete_memory, the
\* existence check, after which the handler returns when there is no such
\* record; remember executes its INSERT
TaskBegin(k) ==
    /\ tasks[k].pc = "accepted"
    /\ MayRun(k)
    /\ conn' = TRUE
    /\ connections' = Connected(conn, connections)
    /\ LET m == Opened(conn, memories)
           t == tasks[k]
       IN IF t.name = "remember"
          THEN /\ NextRowid(m) <= MaxId
               /\ now' \in ClockReadings(now)
               /\ memories' = db_add_memory(m, "a", "x", now').memories
               /\ tasks' = [tasks EXCEPT ![k].pc = "commit",
                                         ![k].start = m]
               /\ current' = k
               /\ op' = "task"
               /\ ret' = None
               /\ calls' = calls
          ELSE /\ now' = now
               /\ memories' = m
               /\ LET found == db_get_memory_by_id(m, t.id) # NoMemory
                  IN /\ tasks' = [tasks EXCEPT
                                    ![k].pc = IF found THEN "write"
                                              ELSE "done",
                                    ![k].start = m,
                                    ![k].found = found]
                     /\ current' = IF found THEN k ELSE 0
                     /\ IF found
                        THEN /\ op' = "task"
                             /\ ret' = None
                             /\ calls' = calls
                        ELSE LET r == TaskReturn([t EXCEPT !.start = m])
                             IN
                               /\ op' = "task_return"
                               /\ ret' = [isError |-> r.isError,
                                          text |-> r.text]
                               /\ calls' = r.calls
    /\ args' = [task |-> k]
    /\ UNCHANGED <<returned, lifespan, closes>>

\* the UPDATE or DELETE statement of the coroutine of slot k
TaskWrite(k) ==
    /\ tasks[k].pc = "write"
    /\ MayRun(k)
    /\ IF tasks[k].name = "update_memory"
       THEN /\ now' \in ClockReadings(now)
            /\ memories' = sql_update(memories, tasks[k].id, "b", None, now')
       ELSE /\ now' = now
            /\ memories' = sql_delete(memories, tasks[k].id)
    /\ tasks' = [tasks EXCEPT ![k].pc = "commit"]
    /\ current' = k
    /\ op' = "task"
    /\ args' = [task |-> k]
    /\ ret' = None
    /\ UNCHANGED <<conn, connections, returned, calls, lifespan, closes>>

\* the commit and the return of the coroutine of slot k
TaskCommit(k) ==
    /\ tasks[k].pc = "commit"
    /\ MayRun(k)
    /\ tasks' = [tasks EXCEPT ![k].pc = "done"]
    /\ current' = IF current = k THEN 0 ELSE current
    /\ LET r == TaskReturn(tasks[k])
       IN /\ op' = "task_return"
          /\ ret' = [isError |-> r.isError, text |-> r.text]
          /\ calls' = r.calls
          /\ returned' = returned
                            \cup (Ids(r.memories) \ Ids(tasks[k].start))
    /\ args' = [task |-> k]
    /\ UNCHANGED <<memories, conn, connections, now, lifespan, closes>>

NextInFlight ==
    \/ \E k \in 1..MaxTasks, req \in TaskRequests : Accept(k, req)
    \/ \E k \in 1..MaxTasks : TaskBegin(k)
    \/ \E k \in 1..MaxTasks : TaskWrite(k)
    \/ \E k \in 1..MaxTasks : TaskCommit(k)

SpecInFlight == Init /\ [][NextInFlight]_vars

\* the messages of the exceptions the store raises in the model
StoreErrors == {"database is locked"}

\* the statement of a db method that raises: its first execute(), before
\* any change; the UPDATE or DELETE that follows the existence check of
\* update_memory and delete_memory ("write"), still before any change but
\* after update_memory has read the clock; or its commit(), after the
\* changes of the method were made on the connection
RaisePoints == {"execute", "write", "commit"}

\* "storing", "retrieving", ...: the word of each tool's except clause
Verb(name) ==
    IF name = "remember" THEN "storing"
    ELSE IF name = "get_memory" THEN "retrieving"
    ELSE IF name = "list_memories" THEN "listing"
    ELSE IF name = "update_memory" THEN "updating"
    ELSE "deleting"

\* the noun of each tool's except clause: list_memories says "memories"
Noun(name) == IF name = "list_memories" THEN "memories" ELSE "memory"

\* a tool function without its try/except: the exception leaves
\* handle_call_tool
tool_except_propagates(m, name, message, called) ==
    [memories |-> m, isError |-> TRUE, text |-> message, calls |-> called]

\* "except Exception as e: return f'Error {verb} {noun}: {str(e)}'" of the
\* tool function, returned by handle_call_tool as TextContent
tool_except(m, name, message, called) ==
    [memories |-> m, isError |-> FALSE,
     text |-> "Error " \o Verb(name) \o " " \o Noun(name) \o ": "
                \o message,
     calls |-> called]

\* handle_call_tool when the db method it reaches raises message at point:
\* an invocation that reaches no db method is answered as usual
handle_call_tool_store_error(c, m, name, arguments, t, message, point) ==
    LET r == handle_call_tool(c, m, name, arguments, t)
    IN IF r.calls = <<>> THEN r
       ELSE tool_except(IF point = "commit" THEN r.memories
                        ELSE Opened(c, m),
                        name, message, r.calls)

\* the invocation gets to the UPDATE of db.update_memory or to the DELETE
\* of db.delete_memory: the existence check has found the record
ReachesWrite(m, name, arguments) ==
    \/ name = "update_memory" /\ CallReadsClock(m, name, arguments)
    \/ /\ name = "delete_memory"
       /\ ~Falsy(arguments)
       /\ HasKey(arguments, "memory_id")
       /\ py_int(arguments["memory_id"]).exc = None
       /\ py_int(arguments["memory_id"]).value \in Ids(m)

\* one tools/call request during which the store raises
HandleCallToolStoreError(name, arguments, message, point) ==
    /\ point = "write" => ReachesWrite(memories, name, arguments)
    /\ now' \in IF /\ CallReadsClock(memories, name, arguments)
                   /\ name = "update_memory" => point # "execute"
                THEN ClockReadings(now) ELSE {now}
    /\ handle_call_tool(conn, memories, name, arguments, now').calls # <<>>
    /\ \E r \in {handle_call_tool_store_error(conn, memories, name,
                                              arguments, now', message,
                                              point)} :
          /\ \A row \in r.memories : row.id <= MaxId
          /\ memories' = r.memories
          /\ op' = "call_tool_store_error"
          /\ args' = [name |-> name, arguments |-> arguments,
                      message |-> message]
          /\ ret' = [isError |-> r.isError, text |-> r.text]
          /\ calls' = r.calls
          /\ conn' = TRUE
          /\ connections' = Connected(conn, connections)
    /\ UNCHANGED <<returned, lifespan, closes, loop>>

\* the requests the model sends while the store may raise
StoreErrorInvocations ==
    {[name |-> "remember",
      arguments |-> [title |-> JStr("a"), content |-> JStr("x")]],
     [name |-> "get_memory", arguments |-> [memory_id |-> JInt(1)]],
     [name |-> "get_memory", arguments |-> [title |-> JStr("a")]],
     [name |-> "get_memory",
      arguments |-> [memory_id |-> JNull, title |-> JNull]],
     [name |-> "list_memories", arguments |-> NoArguments],
     [name |-> "update_memory",
      arguments |-> [memory_id |-> JInt(1), title |-> JStr("b")]],
     [name |-> "delete_memory", arguments |-> [memory_id |-> JInt(1)]]}

NextStoreError ==
    \/ \E inv \in StoreErrorInvocations :
            HandleCallTool(inv.name, inv.arguments)
    \/ \E inv \in StoreErrorInvocations :
        \E message \in StoreErrors, point \in RaisePoints :
            HandleCallToolStoreError(inv.name, inv.arguments, message,
                                     point)

SpecStoreError == Init /\ [][NextStoreError]_vars

\* the lifespan context without its "finally": an error in the body skips
\* db.close()
lifespan_exit_no_finally(c, n, error) ==
    IF error THEN [conn |-> c, closes |-> n]
    ELSE [conn |-> FALSE, closes |-> n + 1]

\* "try: yield / finally: db.close()" when the body of the context ends,
\* with an error or without: db.conn and the number of close() calls after
lifespan_exit(c, n, error) == [conn |-> FALSE, closes |-> n + 1]

\* the server enters its lifespan context
LifespanEnter ==
    /\ lifespan = "none"
    /\ lifespan' = "active"
    /\ op' = "lifespan"
    /\ args' = <<>>
    /\ ret' = None
    /\ UNCHANGED <<memories, conn, now, returned, calls, closes,
                   connections, loop>>

\* the body of the lifespan context ends
LifespanExit(error) ==
    /\ lifespan = "active"
    /\ lifespan' = IF error THEN "failed" ELSE "exited"
    /\ conn' = lifespan_exit(conn, closes, error).conn
    /\ closes' = lifespan_exit(conn, closes, error).closes
    /\ connections' = IF closes' > closes
                      THEN db_close(conn, connections).connections
                      ELSE connections
    /\ op' = "lifespan"
    /\ args' = <<>>
    /\ ret' = None
    /\ UNCHANGED <<memories, now, returned, calls, loop>>

\* the listing with no argument of delete_memory marked required
handle_list_tools_delete_unmarked ==
    <<[name |-> "remember", required |-> <<"title", "content">>],
      [name |-> "get_memory", required |-> <<>>],
      [name |-> "list_memories", required |-> <<>>],
      [name |-> "update_memory", required |-> <<"memory_id">>],
      [name |-> "delete_memory", required |-> <<>>]>>

\* handle_list_tools(): the name and the "required" list of the input schema
\* of each descriptor, in the order returned; <<>> where the schema has no
\* "required"
handle_list_tools ==
    <<[name |-> "remember", required |-> <<"title", "content">>],
      [name |-> "get_memory", required |-> <<>>],
      [name |-> "list_memories", required |-> <<>>],
      [name |-> "update_memory", required |-> <<"memory_id">>],
      [name |-> "delete_memory", required |-> <<"memory_id">>]>>

\* one tools/list request answered by handle_list_tools
HandleListTools ==
    /\ op' = "list_tools"
    /\ args' = <<>>
    /\ ret' = handle_list_tools
    /\ calls' = <<>>
    /\ UNCHANGED <<memories, conn, connections, now, returned, lifespan,
                   closes, loop>>

\* the requests the model sends around the lifespan context
LifespanInvocations ==
    {[name |-> "remember",
      arguments |-> [title |-> JStr("a"), content |-> JStr("x")]],
     [name |-> "get_memory", arguments |-> [memory_id |-> JInt(1)]],
     [name |-> "get_memory", arguments |-> <<>>],
     [name |-> "list_memories", arguments |-> NoArguments],
     [name |-> "update_memory",
      arguments |-> [memory_id |-> JInt(1), title |-> JStr("b")]],
     [name |-> "delete_memory", arguments |-> [memory_id |-> JInt(1)]]}

NextLifespan ==
    \/ LifespanEnter
    \/ HandleListTools
    \/ \E error \in BOOLEAN : LifespanExit(error)
    \/ \E inv \in LifespanInvocations :
            HandleCallTool(inv.name, inv.arguments)

SpecLifespan == Init /\ [][NextLifespan]_vars

\* the read methods of the store and close(), called between the requests
\* and the steps of the lifespan context
NextReads ==
    \/ NextLifespan
    \/ Close
    \/ \E memory_id \in MemoryIds : GetMemoryById(memory_id)
    \/ \E title \in Titles : GetMemoryByTitle(title)
    \/ ListMemories

SpecReads == Init /\ [][NextReads]_vars

(* ============================== properties ============================= *)
\* the latest call, as the step that made it sees it
IsCall(name) == op' = name
\* fields the latest update_memory call supplied
Supplied(a) == a.title # None \/ a.content # None
\* the row of table m with the given id (the table has one)
RowOf(m, id) == CHOOSE r \in m : r.id = id

(* ---- C1 ---- *)
\* C1: after add_memory(title, content) returned id, get_memory_by_id(id)
\* yields a record with that id, title and content, and with
\* created_at = updated_at.
C1_AddThenGetById ==
    op = "add_memory" =>
        LET memory == db_get_memory_by_id(memories, ret)
        IN /\ memory # NoMemory
           /\ memory.id = ret
           /\ memory.title = args.title
           /\ memory.content = args.content
           /\ memory.created_at = memory.updated_at

\* an add_memory has just returned, at a clock reading with a fraction
C1_Witness ==
    /\ op = "add_memory"
    /\ ret = 2
    /\ now % TicksPerSecond # 0
    /\ Cardinality(memories) = 2

(* ---- C2 ---- *)
\* C2: an id returned by add_memory was never returned by an earlier
\* add_memory, whether or not its record has since been deleted.
C2_IdNeverReturnedTwice ==
    [][IsCall("add_memory") => ret' \notin returned]_vars

(* ---- C3 ---- *)
\* C3: no two stored records share an id, and the id add_memory returns is
\* positive and is not the id of a record in the table at the call.
C3_IdsUnique ==
    /\ [](\A r \in memories, q \in memories : r.id = q.id => r = q)
    /\ [][IsCall("add_memory") =>
            /\ ret' > 0
            /\ ret' \notin Ids(memories)]_vars

\* an add_memory to a table that holds record 1 has returned 2, and the two
\* records carry the same title and content
C3_Witness ==
    /\ op = "add_memory"
    /\ Ids(memories) = {1, 2}
    /\ ret = 2
    /\ \A r \in memories : r.title = "a" /\ r.content = "x"

(* ---- C4 ---- *)
\* C4: update_memory on an existing record with a field supplied returns
\* true, sets each supplied field to the supplied value and keeps the value
\* of a field that is not supplied.
C4_UpdateSetsSuppliedFields ==
    [][(/\ IsCall("update_memory")
        /\ args'.memory_id \in Ids(memories)
        /\ Supplied(args')) =>
            LET a == args'
                old == RowOf(memories, a.memory_id)
            IN /\ ret' = TRUE
               /\ a.memory_id \in Ids(memories')
               /\ LET new == RowOf(memories', a.memory_id)
                  IN /\ new.title = IF a.title # None THEN a.title
                                    ELSE old.title
                     /\ new.content = IF a.content # None THEN a.content
                                      ELSE old.content]_vars

\* a title-only update has just changed the title of a record whose content
\* differs from the other record's
C4_Witness ==
    /\ op = "update_memory"
    /\ ret = TRUE
    /\ args.title = "b"
    /\ args.content = None
    /\ \E r \in memories : /\ r.id = args.memory_id
                           /\ r.title = "b"
                           /\ r.content = "y"
                           /\ r.updated_at # r.created_at

(* ---- C5 ---- *)
\* C5: update_memory on an existing record with a field supplied sets
\* updated_at to the time of the call, whatever the supplied values; no
\* other call changes the updated_at of a record that stays in the table.
C5_UpdatedAtBumped ==
    [][/\ (/\ IsCall("update_memory")
           /\ args'.memory_id \in Ids(memories)
           /\ Supplied(args')) =>
               \A r \in memories' :
                   r.id = args'.memory_id =>
                       r.updated_at = isoformat(now')
       /\ \A r \in memories, q \in memories' :
             (r.id = q.id /\ r.updated_at # q.updated_at) =>
                 /\ IsCall("update_memory")
                 /\ args'.memory_id = r.id
                 /\ Supplied(args')]_vars

\* an update has just stamped a record with a time later than its creation
C5_Witness ==
    /\ op = "update_memory"
    /\ ret = TRUE
    /\ Supplied(args)
    /\ \E r \in memories : /\ r.id = args.memory_id
                           /\ r.updated_at = isoformat(now)
                           /\ r.created_at # r.updated_at
                           /\ now = MaxTime

(* ---- C6 ---- *)
\* C6: update_memory on an existing record with neither title nor content
\* returns true and leaves the table as it was.
C6_UpdateNoFieldsIsNoOp ==
    [][(/\ IsCall("update_memory")
        /\ args'.memory_id \in Ids(memories)
        /\ ~Supplied(args')) =>
            /\ ret' = TRUE
            /\ memories' = memories]_vars

\* a field-less update of an existing record has returned true at a time
\* later than the record's updated_at
C6_Witness ==
    /\ op = "update_memory"
    /\ ~Supplied(args)
    /\ ret = TRUE
    /\ \E r \in memories : /\ r.id = args.memory_id
                           /\ r.updated_at # isoformat(now)

(* ---- C7 ---- *)
\* C7: update_memory on an id that is not in the table returns false,
\* whatever fields are supplied, and leaves the table as it was.
C7_UpdateMissingId ==
    [][(/\ IsCall("update_memory")
        /\ args'.memory_id \notin Ids(memories)) =>
            /\ ret' = FALSE
            /\ memories' = memories]_vars

\* an update with a field supplied has returned false on a non-empty table
C7_Witness ==
    /\ op = "update_memory"
    /\ ret = FALSE
    /\ Supplied(args)
    /\ args.memory_id \notin Ids(memories)
    /\ memories # {}

(* ---- C8 ---- *)
\* C8: delete_memory returns true exactly when the id is in the table; after
\* a true delete get_memory_by_id finds nothing, and the id stays out of the
\* table (so a further delete returns false) until an add_memory returns it.
C8_DeleteThenGone ==
    /\ [](op = "delete_memory" =>
            db_get_memory_by_id(memories, args.memory_id) = NoMemory)
    /\ [][/\ IsCall("delete_memory") =>
                ret' = (args'.memory_id \in Ids(memories))
          /\ \A id \in MemoryIds :
                (/\ id \notin Ids(memories)
                 /\ ~(IsCall("add_memory") /\ ret' = id)) =>
                    id \notin Ids(memories')]_vars

\* a delete has returned true and left another record in the table
C8_Witness ==
    /\ op = "delete_memory"
    /\ ret = TRUE
    /\ args.memory_id \notin Ids(memories)
    /\ memories # {}

(* ---- C9 ---- *)
\* C9: a delete_memory that returns true removes the record with that id
\* and nothing else; one that returns false leaves the table as it was.
C9_DeleteRemovesOnlyThatRow ==
    [][IsCall("delete_memory") =>
          IF ret'
          THEN /\ args'.memory_id \in Ids(memories)
               /\ memories' =
                    memories \ {RowOf(memories, args'.memory_id)}
          ELSE memories' = memories]_vars

\* a delete of the lower of two records has returned true, the higher is
\* still there
C9_Witness ==
    /\ op = "delete_memory"
    /\ ret = TRUE
    /\ args.memory_id = 1
    /\ Ids(memories) = {2}

(* ---- C10 ---- *)
\* C10: list_memories yields one {id, title} projection for each record in
\* the table, with the record's current title, and nothing else; the empty
\* sequence for the empty table.
C10_ListIsProjection ==
    LET listed == db_list_memories(memories)
    IN /\ Len(listed) = Cardinality(memories)
       /\ {listed[i] : i \in 1..Len(listed)} =
             {[id |-> r.id, title |-> r.title] : r \in memories}
       /\ (memories = {} => listed = <<>>)
       /\ (op = "list_memories" => ret = listed)

\* a list call has returned two projections, one of a record whose title
\* was updated
C10_Witness ==
    /\ op = "list_memories"
    /\ Len(ret) = 2
    /\ \E r \in memories : r.updated_at # r.created_at /\ r.title = "b"

(* ---- C11 ---- *)
\* C11: get_memory_by_title(t) returns None exactly when no record has the
\* title t, and otherwise a record of the table whose title is t.
C11_GetByTitle ==
    /\ \A t \in Titles :
          LET memory == db_get_memory_by_title(memories, t)
          IN IF \A r \in memories : r.title # t
             THEN memory = NoMemory
             ELSE /\ memory # NoMemory
                  /\ memory \in memories
                  /\ memory.title = t
    /\ (op = "get_memory_by_title" =>
           ret = db_get_memory_by_title(memories, args.title))

\* a lookup by title has returned record 2 while record 1 has another title
C11_Witness ==
    /\ op = "get_memory_by_title"
    /\ ret # NoMemory
    /\ ret.id = 2
    /\ \E r \in memories : r.id = 1 /\ r.title # args.title

(* ---- C12 ---- *)
\* what a store method gives on table m with an open connection
StoreCall(name, a, m, t) ==
    CASE name = "add_memory" -> db_add_memory(m, a.title, a.content, t)
      [] name = "get_memory_by_id" ->
            [memories |-> m, ret |-> db_get_memory_by_id(m, a.memory_id)]
      [] name = "get_memory_by_title" ->
            [memories |-> m, ret |-> db_get_memory_by_title(m, a.title)]
      [] name = "list_memories" ->
            [memories |-> m, ret |-> db_list_memories(m)]
      [] name = "update_memory" ->
            db_update_memory(m, a.memory_id, a.title, a.content, t)
      [] name = "delete_memory" -> db_delete_memory(m, a.memory_id)

StoreMethods ==
    {"add_memory", "get_memory_by_id", "get_memory_by_title",
     "list_memories", "update_memory", "delete_memory"}

\* C12: a store method called on a closed store reopens the connection and
\* returns what it returns, and leaves the table it leaves, on the same
\* table with the connection open; the rows written before close() are
\* still there.
C12_ReopenAfterClose ==
    [][(~conn /\ op' \in StoreMethods) =>
          /\ conn'
          /\ memories' = StoreCall(op', args', memories, now').memories
          /\ ret' = StoreCall(op', args', memories, now').ret
          /\ \A r \in memories : r.id \in Ids(memories') \/
                                 (op' = "delete_memory" /\ ret')]_vars

\* the store has been closed with a record in its table
C12_Witness ==
    /\ op = "close"
    /\ ~conn
    /\ Cardinality(memories) = 1
    /\ \E r \in memories : r.updated_at # r.created_at


\* the latest call is a tool invocation of the given name
IsInvocation(name) == op' = "call_tool" /\ args'.name = name

\* C13: the lifespan context makes no db.close() call before it exits and
\* exactly one when it exits, with an error or without; while it is active
\* an open connection stays open; and a tool invocation after the exit
\* that reaches the store reopens the connection and is answered exactly as
\* with an open connection, without error flag.
C13_LifespanClosesOnce ==
    /\ [](/\ lifespan \in {"none", "active"} => closes = 0
          /\ lifespan \in {"exited", "failed"} => closes = 1)
    /\ [][/\ (lifespan = "active" /\ lifespan' = "active" /\ conn) => conn'
          /\ (lifespan = "active" /\ lifespan' # "active") => ~conn'
          /\ (/\ op' = "call_tool"
              /\ lifespan \in {"exited", "failed"}
              /\ calls' # <<>>)
                => /\ conn'
                   /\ ~ret'.isError
                   /\ LET r == handle_call_tool(TRUE, memories, args'.name,
                                                args'.arguments, now')
                      IN /\ ret'.text = r.text
                         /\ memories' = r.memories]_vars

\* the context exited with an error, closed the connection once, and a
\* later get_memory found the record stored before the exit
C13_Witness ==
    /\ lifespan = "failed"
    /\ closes = 1
    /\ op = "call_tool"
    /\ args.name = "get_memory"
    /\ conn
    /\ calls = <<"get_memory_by_id">>
    /\ ret = [isError |-> FALSE, text |-> "Title: a\n\nContent: x"]
\* the mapping gives title and content as text
HasTitleAndContent(a) ==
    /\ HasKey(a, "title") /\ HasKey(a, "content")
    /\ a["title"] # JNull /\ a["content"] # JNull

\* "Memory stored successfully with ID: {id}."
StoredText(id) ==
    "Memory stored successfully with ID: " \o ToString(id) \o "."

\* C14: remember invoked with a title T and a content C, both text, is
\* answered without error flag by "Memory stored successfully with ID:
\* {id}." for a numeric id, and a get_memory invoked with that id right
\* after it is answered by "Title: T\n\nContent: C".
C14_RememberThenGetMemory ==
    [][/\ (IsInvocation("remember")
              /\ HasTitleAndContent(args'.arguments))
            => /\ ~ret'.isError
               /\ \E id \in 1..MaxId : ret'.text = StoredText(id)
       /\ (/\ op = "call_tool"
           /\ args.name = "remember"
           /\ HasTitleAndContent(args.arguments)
           /\ IsInvocation("get_memory")
           /\ DOMAIN args'.arguments = {"memory_id"}
           /\ args'.arguments.memory_id # JNull
           /\ ret.text = StoredText(args'.arguments.memory_id.int))
            => ret' = [isError |-> FALSE,
                       text |-> "Title: " \o args.arguments.title.str
                                    \o "\n\nContent: "
                                    \o args.arguments.content.str]]_vars

\* get_memory of id 2 answered with the second record, which remember
\* stored with title "b" and content "y"
C14_Witness ==
    /\ op = "call_tool"
    /\ args = [name |-> "get_memory",
               arguments |-> [memory_id |-> JInt(2)]]
    /\ ret = [isError |-> FALSE, text |-> "Title: b\n\nContent: y"]
    /\ returned = {1, 2}
    /\ \E r \in memories :
           r.id = 2 /\ r.created_at = r.updated_at /\ r.title = "b"

\* C15: get_memory invoked with the empty mapping is answered without
\* error flag by "Error: Please provide either a memory_id or title.", and
\* no db method is called.
C15_GetMemoryEmptyMapping ==
    [][(IsInvocation("get_memory") /\ args'.arguments = <<>>)
            => /\ ret' = [isError |-> FALSE,
                          text |-> "Error: Please provide either a "
                                       \o "memory_id or title."]
               /\ calls' = <<>>]_vars
\* "Memory with ID {id} not found."
NotFoundText(id) == "Memory with ID " \o ToString(id) \o " not found."

\* update_memory is invoked with the mapping {memory_id: N} alone, and no
\* record has id N
UpdateOfMissingIdAlone ==
    /\ IsInvocation("update_memory")
    /\ DOMAIN args'.arguments = {"memory_id"}
    /\ args'.arguments.memory_id # JNull
    /\ args'.arguments.memory_id.int \notin Ids(memories)

\* C16 as stated: update_memory invoked with {memory_id: N} alone, where no
\* record has id N, is answered without error flag by "Memory with ID N not
\* found.".
C16_UpdateMissingIdNotFound ==
    [][UpdateOfMissingIdAlone
            => ret' = [isError |-> FALSE,
                       text |-> NotFoundText(
                                    args'.arguments.memory_id.int)]]_vars

\* C16 amended: update_memory invoked with {memory_id: N} alone, where no
\* record has id N, is answered without error flag by "Error: Please
\* provide at least one field to update (title or content)."; the answer
\* "Memory with ID N not found." is given, without error flag, when a title
\* or a content comes with the id of no record.
C16_UpdateMissingIdNoFields ==
    [][/\ UpdateOfMissingIdAlone
            => ret' = [isError |-> FALSE,
                       text |-> "Error: Please provide at least one field "
                                    \o "to update (title or content)."]
       /\ (/\ IsInvocation("update_memory")
           /\ HasKey(args'.arguments, "memory_id")
           /\ args'.arguments.memory_id # JNull
           /\ args'.arguments.memory_id.int \notin Ids(memories)
           /\ \/ Get(args'.arguments, "title") # JNull
              \/ Get(args'.arguments, "content") # JNull)
            => ret' = [isError |-> FALSE,
                       text |-> NotFoundText(
                                    args'.arguments.memory_id.int)]]_vars

\* update_memory of an id no record has, with no field, answered by the
\* request for a field while the table holds a record
C16_Witness ==
    /\ op = "call_tool"
    /\ args = [name |-> "update_memory",
               arguments |-> [memory_id |-> JInt(MaxId + 1)]]
    /\ ret = [isError |-> FALSE,
              text |-> "Error: Please provide at least one field to update "
                           \o "(title or content)."]
    /\ Ids(memories) = {1}

\* C17: the update_memory tool called with a memory_id and with title and
\* content both None (absent from the mapping or null) returns "Error:
\* Please provide at least one field to update (title or content).", calls
\* no db method and changes no record, whether a record has the id or not.
C17_UpdateToolNeedsAField ==
    [][(/\ IsInvocation("update_memory")
        /\ HasKey(args'.arguments, "memory_id")
        /\ args'.arguments.memory_id # JNull
        /\ Get(args'.arguments, "title") = JNull
        /\ Get(args'.arguments, "content") = JNull)
            => /\ ret'.text = "Error: Please provide at least one field "
                                  \o "to update (title or content)."
               /\ calls' = <<>>
               /\ memories' = memories
               /\ conn' = conn]_vars

\* update_memory of the id of a record, title and content null, answered by
\* the request for a field
C17_Witness ==
    /\ op = "call_tool"
    /\ args = [name |-> "update_memory",
               arguments |-> [memory_id |-> JInt(1), title |-> JNull,
                              content |-> JNull]]
    /\ ret.text = "Error: Please provide at least one field to update "
                      \o "(title or content)."
    /\ calls = <<>>
    /\ 1 \in Ids(memories)

\* C18: the get_memory tool called with memory_id and title both None
\* returns "Error: Please provide either a memory_id or title." and calls
\* neither get_memory_by_id nor get_memory_by_title: in every reachable
\* state of the store, and in every invocation that reaches the tool with
\* neither.
C18_GetToolNeedsIdOrTitle ==
    /\ [](LET r == get_memory(conn, memories, JNull, None)
          IN /\ r.text = "Error: Please provide either a memory_id or title."
             /\ r.calls = <<>>)
    /\ [][(/\ IsInvocation("get_memory")
           /\ ~Falsy(args'.arguments)
           /\ Get(args'.arguments, "memory_id") = JNull
           /\ Get(args'.arguments, "title") = JNull)
            => /\ ret' = [isError |-> FALSE,
                          text |-> "Error: Please provide either a "
                                       \o "memory_id or title."]
               /\ calls' = <<>>
               /\ memories' = memories]_vars

\* get_memory reached with a null memory_id and a null title while the
\* table holds a record
C18_Witness ==
    /\ op = "call_tool"
    /\ args = [name |-> "get_memory",
               arguments |-> [memory_id |-> JNull, title |-> JNull]]
    /\ ret.text = "Error: Please provide either a memory_id or title."
    /\ calls = <<>>
    /\ memories # {}

\* the invocation lacks an argument its tool requires
LacksRequired(name, a) ==
    \/ name = "remember"
          /\ (~HasKey(a, "title") \/ ~HasKey(a, "content"))
    \/ name \in {"update_memory", "delete_memory"}
          /\ ~HasKey(a, "memory_id")

\* C19: remember invoked without title or without content, and
\* update_memory or delete_memory invoked without memory_id (no mapping, an
\* empty one, or one without the key), is answered with the error flag set
\* and a text that names the missing argument; no db method is called and
\* the table is unchanged.
C19_MissingRequiredArgument ==
    [][(op' = "call_tool" /\ LacksRequired(args'.name, args'.arguments))
            => /\ ret'.isError
               /\ ret'.text = IF args'.name = "remember"
                               THEN "Missing title or content arguments"
                               ELSE "Missing memory_id argument"
               /\ calls' = <<>>
               /\ memories' = memories
               /\ conn' = conn]_vars

\* delete_memory invoked with a title and no memory_id while the table
\* holds a record, answered with the error flag
C19_Witness ==
    /\ op = "call_tool"
    /\ args = [name |-> "delete_memory",
               arguments |-> [title |-> JStr("a")]]
    /\ ret = [isError |-> TRUE, text |-> "Missing memory_id argument"]
    /\ memories # {}

\* C20: an invocation whose name is none of the five tools is answered with
\* the error flag set and the text "Unknown tool: {name}", whatever its
\* arguments; no db method is called and the table is unchanged.
C20_UnknownTool ==
    [][(op' = "call_tool" /\ args'.name \notin ToolNames)
            => /\ ret' = [isError |-> TRUE,
                          text |-> "Unknown tool: " \o args'.name]
               /\ calls' = <<>>
               /\ memories' = memories]_vars

\* an unknown tool invoked with a memory_id while the table holds that
\* record
C20_Witness ==
    /\ op = "call_tool"
    /\ args = [name |-> "bogus_tool",
               arguments |-> [memory_id |-> JInt(1)]]
    /\ ret = [isError |-> TRUE, text |-> "Unknown tool: bogus_tool"]
    /\ 1 \in Ids(memories)

\* C21 as stated: over all invocations the error flag is set exactly when
\* the name is none of the five tools or a required argument is missing
\* (title or content of remember, memory_id of update_memory and
\* delete_memory); get_memory and list_memories never set it.
C21_ErrorFlagIffMalformed ==
    [][op' = "call_tool"
            => /\ ret'.isError
                    <=> \/ args'.name \notin ToolNames
                        \/ LacksRequired(args'.name, args'.arguments)
               /\ args'.name \in {"get_memory", "list_memories"}
                    => ~ret'.isError]_vars

\* the ids the records of a table have not
MissingIds(m) == MemoryIds \ Ids(m)

\* C23: a tool call on an id or a title no record has is answered without
\* error flag and leaves the table unchanged: get_memory answers "Memory
\* not found.", update_memory with a title or a content and delete_memory
\* answer "Memory with ID {id} not found.".
C23_NotFoundIsText ==
    [][/\ (/\ IsInvocation("get_memory")
           /\ \/ /\ HasKey(args'.arguments, "memory_id")
                 /\ args'.arguments.memory_id # JNull
                 /\ args'.arguments.memory_id.int \in MissingIds(memories)
              \/ /\ DOMAIN args'.arguments = {"title"}
                 /\ \A r \in memories :
                        r.title # args'.arguments.title.str)
            => /\ ret' = [isError |-> FALSE, text |-> "Memory not found."]
               /\ memories' = memories
       /\ (/\ \/ /\ IsInvocation("update_memory")
                 /\ \/ Get(args'.arguments, "title") # JNull
                    \/ Get(args'.arguments, "content") # JNull
              \/ IsInvocation("delete_memory")
           /\ HasKey(args'.arguments, "memory_id")
           /\ args'.arguments.memory_id # JNull
           /\ args'.arguments.memory_id.int \in MissingIds(memories))
            => /\ ret' = [isError |-> FALSE,
                          text |-> "Memory with ID "
                                       \o ToString(
                                           args'.arguments.memory_id.int)
                                       \o " not found."]
               /\ memories' = memories]_vars

\* delete_memory of an id whose record was deleted before, answered by the
\* text while another record is in the table
C23_Witness ==
    /\ op = "call_tool"
    /\ args = [name |-> "delete_memory",
               arguments |-> [memory_id |-> JInt(1)]]
    /\ ret = [isError |-> FALSE, text |-> "Memory with ID 1 not found."]
    /\ Ids(memories) = {2}
    /\ returned = {1, 2}

\* the lines "ID: {id} - {title}\n" of the records of a table, one for each
\* record, by ascending id
RECURSIVE LinesOf(_)
LinesOf(m) ==
    IF m = {} THEN ""
    ELSE LET r == CHOOSE x \in m : \A y \in m : x.id <= y.id
         IN "ID: " \o ToString(r.id) \o " - " \o r.title \o "\n"
                \o LinesOf(m \ {r})

\* C24: list_memories answers "No memories stored yet." exactly when the
\* table is empty, and otherwise "Stored Memories:" followed by one line
\* "ID: {id} - {title}" for each record now in the table and no other line:
\* none for a deleted record, the current title for an updated one.
C24_ListText ==
    [][IsInvocation("list_memories")
            => /\ ~ret'.isError
               /\ (ret'.text = "No memories stored yet.") <=> memories = {}
               /\ memories # {}
                    => ret'.text = "Stored Memories:\n\n" \o LinesOf(memories)
               /\ memories' = memories]_vars

\* list_memories after the first record was updated to title "b" and a
\* second record stored
C24_Witness ==
    /\ op = "call_tool"
    /\ args.name = "list_memories"
    /\ ret.text = "Stored Memories:\n\nID: 1 - b\nID: 2 - a\n"
    /\ \E r \in memories : r.id = 1 /\ r.updated_at # r.created_at

\* C27: every record of the table has a title and a content that are not
\* null; remember invoked with a null title or content stores no record and
\* is answered by a text "Error storing memory: ..." (the message of the
\* failed constraint); update_memory invoked with a null title or content
\* leaves that field of the record as it is.
C27_TitleAndContentNotNull ==
    /\ [](\A r \in memories : r.title # None /\ r.content # None)
    /\ [][/\ (/\ IsInvocation("remember")
               /\ HasKey(args'.arguments, "title")
               /\ HasKey(args'.arguments, "content")
               /\ \/ args'.arguments.title = JNull
                  \/ args'.arguments.content = JNull)
                => /\ memories' = memories
                   /\ ret'.text =
                        "Error storing memory: NOT NULL constraint failed: "
                            \o (IF args'.arguments.title = JNull
                                THEN "memories.title"
                                ELSE "memories.content")
          /\ (/\ IsInvocation("update_memory")
              /\ HasKey(args'.arguments, "memory_id")
              /\ args'.arguments.memory_id # JNull
              /\ args'.arguments.memory_id.int \in Ids(memories))
                => LET id == args'.arguments.memory_id.int
                   IN /\ Get(args'.arguments, "title") = JNull
                        => RowOf(memories', id).title
                              = RowOf(memories, id).title
                      /\ Get(args'.arguments, "content") = JNull
                        => RowOf(memories', id).content
                              = RowOf(memories, id).content]_vars

\* update_memory with a null title and the content "y" changed the content
\* of the record and kept its title
C27_Witness ==
    /\ op = "call_tool"
    /\ args = [name |-> "update_memory",
               arguments |-> [memory_id |-> JInt(1), title |-> JNull,
                              content |-> JStr("y")]]
    /\ ret.text = "Memory 1 updated successfully."
    /\ \E r \in memories : r.id = 1 /\ r.title = "a" /\ r.content = "y"

\* the id and the created_at of each record of a table
Origins(m) == {[id |-> r.id, created_at |-> r.created_at] : r \in m}

\* C28: from its creation to its deletion a record keeps its id and its
\* created_at: every call other than the delete_memory of its id leaves a
\* record of that id and that created_at in the table, and update_memory,
\* whatever fields it is given, changes the id and the created_at of no
\* record.
C28_IdAndCreatedAtImmutable ==
    [][/\ \A r \in memories :
            \/ IsCall("delete_memory") /\ args'.memory_id = r.id
            \/ \E q \in memories' :
                    q.id = r.id /\ q.created_at = r.created_at
       /\ IsCall("update_memory")
            => Origins(memories') = Origins(memories)]_vars

\* update_memory changed title and content of record 1 at a later clock
\* reading than its creation
C28_Witness ==
    /\ op = "update_memory"
    /\ args = [memory_id |-> 1, title |-> "b", content |-> "y"]
    /\ ret = TRUE
    /\ \E r \in memories :
           /\ r.id = 1 /\ r.title = "b" /\ r.content = "y"
           /\ r.created_at = isoformat(0)
           /\ r.updated_at = isoformat(MaxTime)

\* C29: when several records have the title asked for, get_memory_by_title
\* returns the one of them with the lowest id, whatever the order in which
\* they were added or updated to that title, and a second call with the
\* same title on the unchanged table returns the same record.
C29_GetByTitleDeterministic ==
    [][IsCall("get_memory_by_title")
            => /\ \A r \in memories : r.title = args'.title
                    => ret' # NoMemory /\ ret'.id <= r.id
               /\ (/\ op = "get_memory_by_title"
                   /\ args = args'
                   /\ memories' = memories)
                    => ret' = ret]_vars

\* two records share title "b": record 2 was added with it, record 1 was
\* updated to it later, and the call returned record 1
C29_Witness ==
    /\ op = "get_memory_by_title"
    /\ args.title = "b"
    /\ ret # NoMemory
    /\ ret.id = 1
    /\ \E r, q \in memories :
           /\ r.id = 1 /\ q.id = 2 /\ r.title = "b" /\ q.title = "b"
           /\ q.updated_at = q.created_at
           /\ r.updated_at # r.created_at

\* C30: the connection is open after construction and after every method
\* of the store but close(), and is None exactly when the latest call is
\* close(); close() on a closed store changes nothing; and never more than
\* one connection is open: one while self.conn is set, none while it is
\* None.  (initialize_db() on an open store opens a second one.)
C30_ConnectionLifecycle ==
    /\ [](/\ op # "gc" => (conn <=> op # "close")
          /\ connections = IF conn THEN 1 ELSE 0)
    /\ [][(IsCall("close") /\ ~conn)
            => UNCHANGED <<memories, conn, connections>>]_vars

\* the "required" list of the descriptor of a tool in a listing
RequiredOf(tools, name) ==
    LET i == CHOOSE j \in DOMAIN tools : tools[j].name = name
    IN {tools[i].required[k] : k \in DOMAIN tools[i].required}

\* C26: the listing of the tools has exactly the five descriptors
\* remember, get_memory, list_memories, update_memory and delete_memory,
\* with title and content required for remember and memory_id required for
\* update_memory and delete_memory; in every state it leaves the table and
\* the connection as they are and calls no db method.
C26_ListToolsIsPure ==
    [][IsCall("list_tools")
            => /\ Len(ret') = 5
               /\ {ret'[i].name : i \in DOMAIN ret'} = ToolNames
               /\ RequiredOf(ret', "remember") = {"title", "content"}
               /\ RequiredOf(ret', "update_memory") = {"memory_id"}
               /\ RequiredOf(ret', "delete_memory") = {"memory_id"}
               /\ calls' = <<>>
               /\ UNCHANGED <<memories, conn, connections>>]_vars

\* the tools listed after the lifespan context closed the connection, with
\* a record in the table: the connection stayed closed
C26_Witness ==
    /\ op = "list_tools"
    /\ Len(ret) = 5
    /\ ~conn
    /\ connections = 0
    /\ lifespan = "exited"
    /\ memories # {}

\* C22 as stated: when the db method of remember, get_memory,
\* list_memories, update_memory or delete_memory raises, the invocation is
\* answered without error flag by "Error storing/retrieving/listing/
\* updating/deleting memory: {message}" for its tool.
C22_StoreErrorIsVerbMemory ==
    [][op' = "call_tool_store_error"
        => /\ ~ret'.isError
           /\ ret'.text = "Error " \o Verb(args'.name) \o " memory: "
                              \o args'.message]_vars

\* C22: when the db method of remember, get_memory, list_memories,
\* update_memory or delete_memory raises, the invocation is answered
\* without error flag by "Error storing/retrieving/updating/deleting
\* memory: {message}" for its tool, and by "Error listing memories:
\* {message}" for list_memories; the invocation after it is served as on
\* an open connection: list_memories then lists the records of the table.
C22_StoreErrorIsText ==
    [][/\ op' = "call_tool_store_error"
            => /\ ~ret'.isError
               /\ \/ args'.name = "remember"
                     /\ ret'.text = "Error storing memory: " \o args'.message
                  \/ args'.name = "get_memory"
                     /\ ret'.text = "Error retrieving memory: "
                                        \o args'.message
                  \/ args'.name = "list_memories"
                     /\ ret'.text = "Error listing memories: "
                                        \o args'.message
                  \/ args'.name = "update_memory"
                     /\ ret'.text = "Error updating memory: "
                                        \o args'.message
                  \/ args'.name = "delete_memory"
                     /\ ret'.text = "Error deleting memory: "
                                        \o args'.message
       /\ (op = "call_tool_store_error" /\ op' = "call_tool")
            => /\ conn
               /\ LET r == handle_call_tool(TRUE, memories, args'.name,
                                            args'.arguments, now')
                  IN ret' = [isError |-> r.isError, text |-> r.text]
               /\ (args'.name = "list_memories" /\ memories # {})
                    => ret'.text = "Stored Memories:\n\n"
                                      \o LinesOf(memories)]_vars

\* list_memories answered by the text of the store's exception while the
\* table holds a record
C22_Witness ==
    /\ op = "call_tool_store_error"
    /\ args.name = "list_memories"
    /\ ret = [isError |-> FALSE,
              text |-> "Error listing memories: database is locked"]
    /\ calls = <<"list_memories">>
    /\ memories # {}

\* the slots whose coroutine is between its first statement and its return
Midway == {k \in 1..MaxTasks : tasks[k].pc \in {"write", "commit"}}

\* C25: with several invocations in flight, the statements of the store of
\* one invocation are not interleaved with those of another: at most one
\* invocation is between its first statement and its return, and only that
\* one takes a step; an update_memory or delete_memory about to write
\* still has the record its existence check found; and at its return the
\* table is the one its db method makes of the table it started on.
C25_NoInterleaving ==
    /\ [](/\ Cardinality(Midway) <= 1
          /\ \A k \in 1..MaxTasks :
                tasks[k].pc = "write" => tasks[k].id \in Ids(memories))
    /\ [][/\ \A k \in Midway, j \in 1..MaxTasks :
                (/\ tasks[j].pc \in {"accepted", "write", "commit"}
                 /\ tasks'[j].pc # tasks[j].pc)
                    => j = k
          /\ \A k \in 1..MaxTasks :
                (tasks[k].pc = "commit" /\ tasks'[k].pc = "done")
                    => LET t == tasks[k]
                       IN memories' =
                            IF t.name = "remember"
                            THEN db_add_memory(t.start, "a", "x",
                                               now').memories
                            ELSE IF t.name = "update_memory"
                            THEN db_update_memory(t.start, t.id, "b", None,
                                                  now').memories
                            ELSE db_delete_memory(t.start,
                                                  t.id).memories]_vars

\* an update_memory of record 1 has written and not yet committed while a
\* delete_memory of record 1 is in flight, waiting for the event loop
C25_Witness ==
    /\ \E k, j \in 1..MaxTasks :
           /\ tasks[k].name = "update_memory" /\ tasks[k].pc = "commit"
           /\ tasks[j].name = "delete_memory" /\ tasks[j].pc = "accepted"
    /\ current # 0
    /\ \E r \in memories : r.id = 1 /\ r.title = "b"

\* the other of the absent and the empty mapping
OtherMapping(a) == IF a = NoArguments THEN <<>> ELSE NoArguments

\* C31: each of the five tools invoked with no mapping is answered as it is
\* with the empty mapping, with the same text, the same error flag, the
\* same db calls and the same table after it; list_memories is answered
\* without error flag with either.
C31_AbsentAsEmpty ==
    [][(/\ op' = "call_tool"
        /\ args'.name \in ToolNames
        /\ args'.arguments \in NoMapping)
            => /\ LET r == handle_call_tool(conn, memories, args'.name,
                                            OtherMapping(args'.arguments),
                                            now')
                  IN /\ ret' = [isError |-> r.isError, text |-> r.text]
                     /\ calls' = r.calls
                     /\ memories' = r.memories
               /\ args'.name = "list_memories"
                    => ~ret'.isError /\ calls' = <<"list_memories">>]_vars

\* list_memories invoked with no mapping, answered by the list of the
\* records
C31_Witness ==
    /\ op = "call_tool"
    /\ args.name = "list_memories"
    /\ args.arguments = NoArguments
    /\ ret = [isError |-> FALSE,
              text |-> "Stored Memories:\n\nID: 1 - a\n"]

\* C32: get_memory invoked with a memory_id and a title uses the id alone:
\* it is answered as the lookup by id is, by the record of that id or by
\* "Memory not found." when no record has the id, even when a record has
\* the title, and get_memory_by_title is not called.
C32_IdBeforeTitle ==
    [][(/\ IsInvocation("get_memory")
        /\ HasKey(args'.arguments, "memory_id")
        /\ HasKey(args'.arguments, "title")
        /\ args'.arguments.memory_id # JNull
        /\ args'.arguments.title # JNull)
            => LET id == args'.arguments.memory_id.int
               IN /\ calls' = <<"get_memory_by_id">>
                  /\ ~ret'.isError
                  /\ ret'.text =
                        IF id \in Ids(memories)
                        THEN "Title: " \o RowOf(memories, id).title
                                 \o "\n\nContent: "
                                 \o RowOf(memories, id).content
                        ELSE "Memory not found."]_vars

\* get_memory of an id no record has and of the title of a record,
\* answered by "Memory not found."
C32_Witness ==
    /\ op = "call_tool"
    /\ args = [name |-> "get_memory",
               arguments |-> [memory_id |-> JInt(MaxId + 1),
                              title |-> JStr("a")]]
    /\ ret.text = "Memory not found."
    /\ \E r \in memories : r.title = "a"

\* the latest call is a read: one of the three read methods of the store,
\* or an invocation of get_memory or list_memories
IsRead ==
    \/ op' \in {"get_memory_by_id", "get_memory_by_title", "list_memories"}
    \/ op' = "call_tool" /\ args'.name \in {"get_memory", "list_memories"}

\* C33: get_memory_by_id, get_memory_by_title and list_memories of the
\* store, and the tools get_memory and list_memories, leave the table as it
\* was in every state: no record added, removed or changed, no updated_at
\* set; the one change they can make is to reopen a closed connection.
C33_ReadsChangeNothing ==
    [][IsRead
            => /\ memories' = memories
               /\ UNCHANGED <<now, returned, lifespan, closes>>
               /\ conn => (conn' /\ connections' = connections)
               /\ ~conn => connections' \in {connections, connections + 1}
               /\ conn' # conn => (~conn /\ conn')]_vars

\* get_memory after the lifespan context closed the connection: the read
\* reopened it and found the updated record
C33_Witness ==
    /\ op = "call_tool"
    /\ args.name = "get_memory"
    /\ lifespan = "exited"
    /\ conn
    /\ calls = <<"get_memory_by_id">>
    /\ ret.text = "Title: b\n\nContent: x"
    /\ \E r \in memories : r.id = 1 /\ r.updated_at # r.created_at

\* a <= b for two stored timestamps, as the order of their texts: by the
\* seconds, then a text without microseconds before one with, then by the
\* microseconds
TimestampLeq(a, b) ==
    \/ a[1] < b[1]
    \/ /\ a[1] = b[1]
       /\ \/ Len(a) = 1
          \/ Len(b) = 2 /\ a[2] <= b[2]

\* the latest call is an update_memory that supplies a field to record r
UpdatesRecord(r) ==
    /\ IsCall("update_memory")
    /\ args'.memory_id = r.id
    /\ Supplied(args')

\* every record has created_at <= updated_at; a record is added with both
\* equal, and they stay equal over every call that is no update of the
\* record supplying a field
CreatedLeqUpdated ==
    /\ [](\A r \in memories : TimestampLeq(r.created_at, r.updated_at))
    /\ [][/\ \A q \in memories' :
                q.id \notin Ids(memories) => q.created_at = q.updated_at
          /\ \A r \in memories, q \in memories' :
                (/\ q.id = r.id
                 /\ r.created_at = r.updated_at
                 /\ ~UpdatesRecord(r))
                    => q.created_at = q.updated_at]_vars

\* C34 as stated: with a clock that does not go backwards every record has
\* created_at <= updated_at, and the two are equal exactly as long as no
\* update supplying a field was applied to the record: such an update
\* ends the equality.
C34_EqualExactlyUntilUpdate ==
    /\ CreatedLeqUpdated
    /\ [][\A r \in memories, q \in memories' :
            (q.id = r.id /\ UpdatesRecord(r))
                => q.created_at # q.updated_at]_vars

\* C34 amended: with a clock that does not go backwards (the premise is
\* the specification SpecSteady: no reading below the last) every record has
\* created_at <= updated_at, and the two are equal as long as no update
\* supplying a field was applied to the record; such an update keeps
\* created_at and sets updated_at to its clock reading, so the two are
\* still equal after it when the clock has not advanced since the record
\* was added, and differ otherwise.
C34_EqualUntilLaterUpdate ==
    /\ CreatedLeqUpdated
    /\ [][\A r \in memories, q \in memories' :
            (q.id = r.id /\ UpdatesRecord(r))
                => /\ q.created_at = r.created_at
                   /\ q.updated_at = isoformat(now')
                   /\ (q.created_at = q.updated_at)
                        <=> (r.created_at = isoformat(now) /\ now' = now)]_vars

\* every record has created_at <= updated_at, whatever the clock does
C34_CreatedLeqUpdatedAnyClock ==
    \A r \in memories : TimestampLeq(r.created_at, r.updated_at)

\* an update gave record 1 the title "b" at the clock reading of its
\* creation: created_at and updated_at are still equal
C34_Witness ==
    /\ op = "update_memory"
    /\ args = [memory_id |-> 1, title |-> "b", content |-> None]
    /\ ret = TRUE
    /\ \E r \in memories :
           /\ r.id = 1 /\ r.title = "b"
           /\ r.created_at = r.updated_at
           /\ r.created_at = isoformat(now)
====
